---- MODULE Spec2Model ----
(***************************************************************************)
(* Model of upup/pkg/fi/cloudup/defaults.go: PerformAssignments and its    *)
(* helpers ensureKubernetesVersion, FindLatestKubernetesVersion and        *)
(* assignProxy.  Go strings are TLA+ strings; the string functions of the  *)
(* Go standard library that the code uses (Contains, Split, Join,          *)
(* TrimSpace) are operators that compute what the library computes.        *)
(* The collaborators (BuildCloud, FindVPCInfo, assignCIDRsToSubnets,       *)
(* LoadChannel/RecommendedKubernetesVersion, vfs ReadFile) answer          *)
(* nondeterministically the first time they are asked and give the same    *)
(* answer on every later pass over the same cluster.                       *)
(***************************************************************************)
EXTENDS Integers, Sequences, FiniteSets, TLC

VARIABLES c, pc, ret, calls, env, pass, pre, prev

vars == <<c, pc, ret, calls, env, pass, pre, prev>>

(* ---------------------------- bounds ----------------------------------- *)

\* number of PerformAssignments passes run over one cluster
MaxPasses == 2

\* number of comma-separated tokens in the user's ProxyExcludes
MaxTokens == 2

(* ------------------------ strings (Go "strings") ----------------------- *)

\* strings.Contains(s, substr)
Contains(s, substr) ==
  \/ substr = ""
  \/ \E i \in 1..(Len(s) - Len(substr) + 1) :
        SubSeq(s, i, i + Len(substr) - 1) = substr

\* index of the first "," of s, 0 when there is none
CommaIndex(s) ==
  IF \E i \in 1..Len(s) : SubSeq(s, i, i) = ","
  THEN CHOOSE i \in 1..Len(s) :
         /\ SubSeq(s, i, i) = ","
         /\ \A j \in 1..(i - 1) : SubSeq(s, j, j) # ","
  ELSE 0

RECURSIVE Split(_)
\* strings.Split(s, ","): Split("") is <<"">>, as in Go
Split(s) ==
  LET i == CommaIndex(s)
  IN IF i = 0 THEN <<s>>
     ELSE <<SubSeq(s, 1, i - 1)>> \o Split(SubSeq(s, i + 1, Len(s)))

RECURSIVE Join(_)
\* strings.Join(a, ",")
Join(a) ==
  IF Len(a) = 0 THEN ""
  ELSE IF Len(a) = 1 THEN a[1]
  ELSE a[1] \o "," \o Join(Tail(a))

IsSpace(ch) == ch \in {" ", "\n", "\t", "\r"}

RECURSIVE TrimLeft(_)
TrimLeft(s) ==
  IF Len(s) > 0 /\ IsSpace(SubSeq(s, 1, 1))
  THEN TrimLeft(SubSeq(s, 2, Len(s)))
  ELSE s

RECURSIVE TrimRight(_)
TrimRight(s) ==
  IF Len(s) > 0 /\ IsSpace(SubSeq(s, Len(s), Len(s)))
  THEN TrimRight(SubSeq(s, 1, Len(s) - 1))
  ELSE s

\* strings.TrimSpace(s)
TrimSpace(s) == TrimRight(TrimLeft(s))

(* --------------------------- pointers ---------------------------------- *)

\* a nil *kops.TopologySpec / *kops.EgressProxySpec
Nil == [nil |-> TRUE]

TopologyPublic == "public"

TopologyPrivate == "private"

(* --------------------------- assignProxy ------------------------------- *)

\* the basic list that assignProxy runs through, in order
ExcludeCandidates(cluster) ==
  << "127.0.0.1",
     "localhost",
     "169.254.169.254",
     cluster.ClusterDNSDomain,
     cluster.MasterPublicName,
     cluster.Name,
     "100.64.0.1",
     cluster.NonMasqueradeCIDR >>

\* ShouldAppend without the "already excluded" test
ShouldAppendAlways(proxyExcludes, exclude) == exclude # ""

\* ShouldAppend with the arguments of strings.Contains exchanged
ShouldAppendSwapped(proxyExcludes, exclude) ==
  /\ exclude # ""
  /\ ~Contains(exclude, proxyExcludes)

\* the test that decides whether a candidate is appended
ShouldAppend(proxyExcludes, exclude) ==
  /\ exclude # ""
  /\ ~Contains(proxyExcludes, exclude)

RECURSIVE AppendExcludes(_, _, _)
\* the for loop of assignProxy over the candidates not yet visited
AppendExcludes(egressSlice, proxyExcludes, candidates) ==
  IF Len(candidates) = 0 THEN egressSlice
  ELSE AppendExcludes(
         IF ShouldAppend(proxyExcludes, Head(candidates))
         THEN Append(egressSlice, Head(candidates))
         ELSE egressSlice,
         proxyExcludes, Tail(candidates))

\* InitialSlice without the test for the empty string
InitialSliceUnguarded(proxyExcludes) == Split(proxyExcludes)

\* the slice the loop starts from
InitialSlice(proxyExcludes) ==
  IF proxyExcludes # "" THEN Split(proxyExcludes) ELSE << >>

assignProxy(cluster) ==
  LET egressProxy == cluster.EgressProxy
  IN IF egressProxy.nil THEN egressProxy
     ELSE [egressProxy EXCEPT !.ProxyExcludes =
             Join(AppendExcludes(InitialSlice(egressProxy.ProxyExcludes),
                                 egressProxy.ProxyExcludes,
                                 ExcludeCandidates(cluster)))]

(* ----------------------- the defaulting steps -------------------------- *)

\* kops.Cluster.SharedVPC()
SharedVPC(cluster) == cluster.NetworkID # ""

DefaultTopology(cluster) ==
  IF cluster.Topology.nil
  THEN [cluster EXCEPT !.Topology =
          [nil |-> FALSE, Masters |-> TopologyPublic, Nodes |-> TopologyPublic]]
  ELSE cluster

DefaultNetworkCIDR(cluster) ==
  IF cluster.NetworkCIDR = "" /\ ~SharedVPC(cluster)
  THEN [cluster EXCEPT !.NetworkCIDR = "172.20.0.0/16"]
  ELSE cluster

DefaultNonMasqueradeCIDR(cluster) ==
  IF cluster.NonMasqueradeCIDR = ""
  THEN [cluster EXCEPT !.NonMasqueradeCIDR = "100.64.0.0/10"]
  ELSE cluster

\* DefaultMasterPublicName without the test for the cluster name
DefaultMasterPublicNameUnnamed(cluster) ==
  IF cluster.MasterPublicName = ""
  THEN [cluster EXCEPT !.MasterPublicName = "api." \o cluster.Name]
  ELSE cluster

DefaultMasterPublicName(cluster) ==
  IF cluster.MasterPublicName = "" /\ cluster.Name # ""
  THEN [cluster EXCEPT !.MasterPublicName = "api." \o cluster.Name]
  ELSE cluster

(* --------------------------- collaborators ----------------------------- *)

\* a collaborator that has not been asked yet
Unasked == [kind |-> "unasked"]

\* BuildCloud(c): a cloud or an error
CloudResponses == {[kind |-> "ok"], [kind |-> "err"]}

\* cloud.FindVPCInfo(id): an error, no VPC, or a VPCInfo with its CIDR
VPCResponses ==
  {[kind |-> "err"], [kind |-> "nil"]}
    \cup {[kind |-> "info", CIDR |-> cidr] : cidr \in {"", "10.20.0.0/16"}}

\* assignCIDRsToSubnets(c): nil or an error
SubnetResponses == {[kind |-> "ok"], [kind |-> "err"]}

\* kops.LoadChannel + kops.RecommendedKubernetesVersion: an error, a channel
\* without a recommendation, or a channel recommending a version
ChannelResponses ==
  {[kind |-> "err"], [kind |-> "none"], [kind |-> "version", version |-> "1.4.6"]}

\* vfs.Context.ReadFile(stableURL): an error or the bytes of stable.txt
ReadFileResponses ==
  {[kind |-> "err"]}
    \cup {[kind |-> "bytes", b |-> b] : b \in {"v1.5.2\n", " \n", ""}}

\* the answers a collaborator may give now: any, the first time it is asked,
\* and the same one ever after
Answers(memo, responses) == IF memo = Unasked THEN responses ELSE {memo}

\* FindLatestKubernetesVersion() (string, error)
FindLatestKubernetesVersion(read) ==
  IF read.kind = "err"
  THEN [latestVersion |-> "", err |-> "LatestVersionFetchError"]
  ELSE [latestVersion |-> TrimSpace(read.b), err |-> "nil"]

(* ------------------------------ inputs --------------------------------- *)

TokenPool == {"", "localhost", "localhost-prod"}

\* the ProxyExcludes strings a user may have written
ProxyExcludesInputs ==
  {Join(t) : t \in UNION {[1..n -> TokenPool] : n \in 0..MaxTokens}}

EgressProxyInputs ==
  {Nil} \cup {[nil |-> FALSE, ProxyExcludes |-> s] : s \in ProxyExcludesInputs}

TopologyInputs ==
  {Nil, [nil |-> FALSE, Masters |-> TopologyPrivate, Nodes |-> TopologyPrivate]}

ClusterInputs ==
  [ NetworkID         : {"", "vpc-1"},
    NetworkCIDR       : {"", "10.0.0.0/16"},
    NonMasqueradeCIDR : {"", "10.64.0.0/10"},
    Topology          : TopologyInputs,
    MasterPublicName  : {"", "api.example.com"},
    KubernetesVersion : {"", "v1.2.3"},
    Channel           : {"", "stable"},
    Name              : {"", "localhost", "localhost-prod"},
    ClusterDNSDomain  : {"", "cluster.local"},
    EgressProxy       : EgressProxyInputs ]

(* ------------------------------ machine -------------------------------- *)

Init ==
  /\ c \in ClusterInputs
  /\ pre = c
  /\ pc = "BuildCloud"
  /\ ret = "running"
  /\ calls = << >>
  /\ env = [cloud |-> Unasked, vpc |-> Unasked, subnets |-> Unasked,
            channel |-> Unasked, read |-> Unasked]
  /\ pass = 1
  /\ prev = [valid |-> FALSE]

\* return err
Fail(e) ==
  /\ ret' = e
  /\ pc' = "Done"

\* cloud, err := BuildCloud(c)
BuildCloudStep ==
  /\ pc = "BuildCloud"
  /\ \E r \in Answers(env.cloud, CloudResponses) :
       /\ env' = [env EXCEPT !.cloud = r]
       /\ calls' = Append(calls, "BuildCloud")
       /\ IF r.kind = "err"
          THEN Fail("BuildCloudError")
          ELSE pc' = "SharedVPC" /\ ret' = ret
  /\ UNCHANGED <<c, pass, pre, prev>>

\* ResolveSharedVPC without the test for an empty CIDR
ResolveSharedVPCUnchecked(cluster, r) ==
  IF r.kind = "err"
  THEN [c |-> cluster, err |-> "NetworkLookupError"]
  ELSE IF r.kind = "nil"
  THEN [c |-> cluster, err |-> "VPCNotFoundError"]
  ELSE [c |-> [cluster EXCEPT !.NetworkCIDR = r.CIDR], err |-> "nil"]

\* the body of "if c.SharedVPC() && c.Spec.NetworkCIDR == "" { ... }" with
\* the answer r of cloud.FindVPCInfo
ResolveSharedVPC(cluster, r) ==
  IF r.kind = "err"
  THEN [c |-> cluster, err |-> "NetworkLookupError"]
  ELSE IF r.kind = "nil"
  THEN [c |-> cluster, err |-> "VPCNotFoundError"]
  ELSE LET assigned == [cluster EXCEPT !.NetworkCIDR = r.CIDR]
       IN IF assigned.NetworkCIDR = ""
          THEN [c |-> assigned, err |-> "NetworkCIDRMissingError"]
          ELSE [c |-> assigned, err |-> "nil"]

\* if c.SharedVPC() && c.Spec.NetworkCIDR == "" { ... }
SharedVPCStep ==
  /\ pc = "SharedVPC"
  /\ IF SharedVPC(c) /\ c.NetworkCIDR = ""
     THEN \E r \in Answers(env.vpc, VPCResponses) :
            LET res == ResolveSharedVPC(c, r)
            IN /\ env' = [env EXCEPT !.vpc = r]
               /\ calls' = Append(calls, "FindVPCInfo")
               /\ c' = res.c
               /\ IF res.err # "nil"
                  THEN Fail(res.err)
                  ELSE pc' = "Topology" /\ ret' = ret
     ELSE /\ pc' = "Topology"
          /\ UNCHANGED <<c, ret, calls, env>>
  /\ UNCHANGED <<pass, pre, prev>>

TopologyStep ==
  /\ pc = "Topology"
  /\ c' = DefaultTopology(c)
  /\ pc' = "NetworkCIDR"
  /\ UNCHANGED <<ret, calls, env, pass, pre, prev>>

NetworkCIDRStep ==
  /\ pc = "NetworkCIDR"
  /\ c' = DefaultNetworkCIDR(c)
  /\ pc' = "NonMasqueradeCIDR"
  /\ UNCHANGED <<ret, calls, env, pass, pre, prev>>

NonMasqueradeCIDRStep ==
  /\ pc = "NonMasqueradeCIDR"
  /\ c' = DefaultNonMasqueradeCIDR(c)
  /\ pc' = "MasterPublicName"
  /\ UNCHANGED <<ret, calls, env, pass, pre, prev>>

MasterPublicNameStep ==
  /\ pc = "MasterPublicName"
  /\ c' = DefaultMasterPublicName(c)
  /\ pc' = "AssignCIDRs"
  /\ UNCHANGED <<ret, calls, env, pass, pre, prev>>

\* err = assignCIDRsToSubnets(c)
AssignCIDRsStep ==
  /\ pc = "AssignCIDRs"
  /\ \E r \in Answers(env.subnets, SubnetResponses) :
       /\ env' = [env EXCEPT !.subnets = r]
       /\ calls' = Append(calls, "assignCIDRsToSubnets")
       /\ IF r.kind = "err"
          THEN Fail("SubnetError")
          ELSE pc' = "AssignProxy" /\ ret' = ret
  /\ UNCHANGED <<c, pass, pre, prev>>

\* c.Spec.EgressProxy = assignProxy(c)
AssignProxyStep ==
  /\ pc = "AssignProxy"
  /\ c' = [c EXCEPT !.EgressProxy = assignProxy(c)]
  /\ pc' = "EnsureVersion"
  /\ UNCHANGED <<ret, calls, env, pass, pre, prev>>

\* VersionFromChannel without the test for a named channel
VersionFromChannelUnnamed(cluster, ch) ==
  IF cluster.KubernetesVersion = ""
  THEN IF ch.kind = "err"
       THEN [c |-> cluster, err |-> "ChannelLoadError", called |-> TRUE]
       ELSE IF ch.kind = "version"
       THEN [c |-> [cluster EXCEPT !.KubernetesVersion = ch.version],
             err |-> "nil", called |-> TRUE]
       ELSE [c |-> cluster, err |-> "nil", called |-> TRUE]
  ELSE [c |-> cluster, err |-> "nil", called |-> FALSE]

\* the first if of ensureKubernetesVersion: the version from the channel
VersionFromChannel(cluster, ch) ==
  IF cluster.KubernetesVersion = "" /\ cluster.Channel # ""
  THEN IF ch.kind = "err"
       THEN [c |-> cluster, err |-> "ChannelLoadError", called |-> TRUE]
       ELSE IF ch.kind = "version"
       THEN [c |-> [cluster EXCEPT !.KubernetesVersion = ch.version],
             err |-> "nil", called |-> TRUE]
       ELSE [c |-> cluster, err |-> "nil", called |-> TRUE]
  ELSE [c |-> cluster, err |-> "nil", called |-> FALSE]

\* VersionFromLatest without the test for an unset version
VersionFromLatestUnguarded(cluster, read) ==
  LET latest == FindLatestKubernetesVersion(read)
  IN IF latest.err # "nil"
     THEN [c |-> cluster, err |-> latest.err, called |-> TRUE]
     ELSE [c |-> [cluster EXCEPT !.KubernetesVersion = latest.latestVersion],
           err |-> "nil", called |-> TRUE]

\* the second if of ensureKubernetesVersion: the latest stable version
VersionFromLatest(cluster, read) ==
  IF cluster.KubernetesVersion = ""
  THEN LET latest == FindLatestKubernetesVersion(read)
       IN IF latest.err # "nil"
          THEN [c |-> cluster, err |-> latest.err, called |-> TRUE]
          ELSE [c |-> [cluster EXCEPT !.KubernetesVersion = latest.latestVersion],
                err |-> "nil", called |-> TRUE]
  ELSE [c |-> cluster, err |-> "nil", called |-> FALSE]

\* ensureKubernetesVersion going on to the latest stable version after a
\* failed channel load
ensureKubernetesVersionSkipping(cluster, ch, read) ==
  LET first == VersionFromChannel(cluster, ch)
      second == VersionFromLatest(first.c, read)
  IN [c |-> second.c, err |-> second.err,
      channelCalled |-> first.called, latestCalled |-> second.called]

\* ensureKubernetesVersion(c) with the answers ch and read of its collaborators
ensureKubernetesVersion(cluster, ch, read) ==
  LET first == VersionFromChannel(cluster, ch)
      second == IF first.err # "nil"
                THEN [c |-> first.c, err |-> first.err, called |-> FALSE]
                ELSE VersionFromLatest(first.c, read)
  IN [c |-> second.c, err |-> second.err,
      channelCalled |-> first.called, latestCalled |-> second.called]

\* return ensureKubernetesVersion(c)
EnsureVersionStep ==
  /\ pc = "EnsureVersion"
  /\ \E ch \in Answers(env.channel, ChannelResponses),
        read \in Answers(env.read, ReadFileResponses) :
       LET r == ensureKubernetesVersion(c, ch, read)
       IN /\ c' = r.c
          /\ ret' = r.err
          /\ calls' = calls
                \o (IF r.channelCalled THEN <<"LoadChannel">> ELSE << >>)
                \o (IF r.latestCalled THEN <<"FindLatestKubernetesVersion">> ELSE << >>)
          /\ env' = [env EXCEPT
                       !.channel = IF r.channelCalled THEN ch ELSE @,
                       !.read = IF r.latestCalled THEN read ELSE @]
  /\ pc' = "Done"
  /\ UNCHANGED <<pass, pre, prev>>

\* the caller runs PerformAssignments again over the same cluster
NextPass ==
  /\ pc = "Done"
  /\ pass < MaxPasses
  /\ prev' = [valid |-> TRUE, post |-> c, ret |-> ret, pre |-> pre]
  /\ pre' = c
  /\ pass' = pass + 1
  /\ pc' = "BuildCloud"
  /\ ret' = "running"
  /\ calls' = << >>
  /\ UNCHANGED <<c, env>>

Next ==
  \/ BuildCloudStep
  \/ SharedVPCStep
  \/ TopologyStep
  \/ NetworkCIDRStep
  \/ NonMasqueradeCIDRStep
  \/ MasterPublicNameStep
  \/ AssignCIDRsStep
  \/ AssignProxyStep
  \/ EnsureVersionStep
  \/ NextPass

Spec == Init /\ [][Next]_vars


(* ----------------------- vocabulary of the properties ------------------ *)

\* the pass has returned
Done == pc = "Done"

\* the pass has returned nil
Succeeded == pc = "Done" /\ ret = "nil"

\* the state right after "c.Spec.EgressProxy = assignProxy(c)" of this pass
ProxyAssigned == pc = "EnsureVersion"

\* the pass got past assignCIDRsToSubnets, so ensureKubernetesVersion ran
VersionResolverRan ==
  pc = "Done" /\ ret \in {"nil", "ChannelLoadError", "LatestVersionFetchError"}

\* how often the pass invoked a collaborator
Count(name) == Cardinality({i \in 1..Len(calls) : calls[i] = name})

\* the last collaborator the pass invoked
LastCall == calls[Len(calls)]

\* the tokens of a comma-separated list
Tokens(s) == IF s = "" THEN << >> ELSE Split(s)

NoRepeatedToken(s) ==
  \A i, j \in 1..Len(Tokens(s)) : Tokens(s)[i] = Tokens(s)[j] => i = j

IsToken(t, s) == \E i \in 1..Len(Tokens(s)) : Tokens(s)[i] = t

\* the collaborator whose failure an error value reports
FailingCall(e) ==
  CASE e = "BuildCloudError" -> "BuildCloud"
    [] e \in {"NetworkLookupError", "VPCNotFoundError", "NetworkCIDRMissingError"}
         -> "FindVPCInfo"
    [] e = "SubnetError" -> "assignCIDRsToSubnets"
    [] e = "ChannelLoadError" -> "LoadChannel"
    [] e = "LatestVersionFetchError" -> "FindLatestKubernetesVersion"

(* ------------------------------- C1 ------------------------------------ *)

\* C1: idempotence.  When a pass over a cluster returned nil, the next pass
\* over the resulting cluster, with the collaborators answering as before,
\* returns nil too and leaves every field, EgressProxy.ProxyExcludes
\* included, as the first pass left it.
C1_Idempotent ==
  (pc = "Done" /\ prev.valid /\ prev.ret = "nil")
    => (ret = "nil" /\ c = prev.post)

\* a second pass has returned after a first one that changed the cluster,
\* its exclusion list included
C1_Witness ==
  /\ pc = "Done" /\ prev.valid /\ prev.ret = "nil"
  /\ ~prev.pre.EgressProxy.nil
  /\ prev.pre.EgressProxy.ProxyExcludes = "localhost-prod,localhost"
  /\ prev.post.EgressProxy.ProxyExcludes # prev.pre.EgressProxy.ProxyExcludes
  /\ prev.pre.KubernetesVersion = ""
  /\ c = prev.post

(* ------------------------------- C2 ------------------------------------ *)

\* C2: non-overwrite.  At every point of a pass, and so also when it returns
\* nil or an error, each of NetworkCIDR, NonMasqueradeCIDR, Topology,
\* MasterPublicName and KubernetesVersion that was set when the pass began
\* has the value it had then.
C2_NonOverwrite ==
  /\ pre.NetworkCIDR # "" => c.NetworkCIDR = pre.NetworkCIDR
  /\ pre.NonMasqueradeCIDR # "" => c.NonMasqueradeCIDR = pre.NonMasqueradeCIDR
  /\ ~pre.Topology.nil => c.Topology = pre.Topology
  /\ pre.MasterPublicName # "" => c.MasterPublicName = pre.MasterPublicName
  /\ pre.KubernetesVersion # "" => c.KubernetesVersion = pre.KubernetesVersion

\* a first pass over a cluster with all five fields set (KubernetesVersion
\* "v1.2.3", a channel named) has returned nil and has changed the cluster
C2_Witness ==
  /\ pc = "Done" /\ ret = "nil" /\ pass = 1
  /\ pre.KubernetesVersion = "v1.2.3" /\ c.KubernetesVersion = "v1.2.3"
  /\ pre.Channel # ""
  /\ pre.NetworkCIDR # "" /\ pre.NonMasqueradeCIDR # ""
  /\ ~pre.Topology.nil /\ pre.MasterPublicName # ""
  /\ c # pre

(* ------------------------------- C3 ------------------------------------ *)

\* C3: precedence of the version sources.  When ensureKubernetesVersion has
\* run: with KubernetesVersion set neither collaborator was invoked; with it
\* unset and no channel named the channel loader was not invoked and the
\* latest-stable fetch was invoked once; with a channel that recommends a
\* version that version is assigned and the fetch was not invoked; with a
\* channel without a recommendation the fetch was invoked once, after the
\* one channel load.
C3_VersionPrecedence ==
  VersionResolverRan =>
    /\ pre.KubernetesVersion # "" =>
         Count("LoadChannel") = 0 /\ Count("FindLatestKubernetesVersion") = 0
    /\ (pre.KubernetesVersion = "" /\ pre.Channel = "") =>
         Count("LoadChannel") = 0 /\ Count("FindLatestKubernetesVersion") = 1
    /\ (pre.KubernetesVersion = "" /\ pre.Channel # "") =>
         /\ Count("LoadChannel") = 1
         /\ env.channel.kind = "version" =>
              /\ c.KubernetesVersion = env.channel.version
              /\ Count("FindLatestKubernetesVersion") = 0
         /\ env.channel.kind = "none" =>
              /\ Count("FindLatestKubernetesVersion") = 1
              /\ SubSeq(calls, Len(calls) - 1, Len(calls))
                   = <<"LoadChannel", "FindLatestKubernetesVersion">>
         /\ env.channel.kind = "err" =>
              Count("FindLatestKubernetesVersion") = 0

\* a channel was named and loaded, gave no recommendation, and the version
\* came from the latest-stable fetch
C3_Witness ==
  /\ VersionResolverRan /\ ret = "nil"
  /\ pre.KubernetesVersion = "" /\ pre.Channel = "stable"
  /\ env.channel.kind = "none"
  /\ c.KubernetesVersion = "v1.5.2"
  /\ LastCall = "FindLatestKubernetesVersion"

(* ------------------------------- C4 ------------------------------------ *)

\* C4: a pass never returns nil with KubernetesVersion still empty: when the
\* latest-stable fetch fails or answers with an empty or whitespace-only
\* body, the pass returns LatestVersionFetchError.
C4_EmptyLatestIsFatal ==
  /\ Succeeded => c.KubernetesVersion # ""
  /\ (VersionResolverRan /\ Count("FindLatestKubernetesVersion") = 1
        /\ (env.read.kind = "err" \/ TrimSpace(env.read.b) = ""))
       => ret = "LatestVersionFetchError"

(* ------------------------------- C5 ------------------------------------ *)

\* C5 as stated: with ProxyExcludes "localhost" and the cluster name
\* "localhost-prod", "localhost-prod" is not a token of the result.
C5_Original ==
  (/\ ProxyAssigned
   /\ ~pre.EgressProxy.nil
   /\ pre.EgressProxy.ProxyExcludes = "localhost"
   /\ pre.Name = "localhost-prod")
    => ~IsToken("localhost-prod", c.EgressProxy.ProxyExcludes)

\* C5 amended: the containment runs the other way.  With ProxyExcludes
\* "localhost" and the cluster name "localhost-prod" the candidate
\* "localhost-prod" is appended and is a token of the result (and
\* "localhost" is not appended a second time); it is with ProxyExcludes
\* "localhost-prod" that the candidate "localhost" counts as already
\* excluded and is not a token of the result.
C5_SubstringDirection ==
  (ProxyAssigned /\ ~pre.EgressProxy.nil) =>
    /\ (pre.EgressProxy.ProxyExcludes = "localhost" /\ pre.Name = "localhost-prod")
         => /\ IsToken("localhost-prod", c.EgressProxy.ProxyExcludes)
            /\ NoRepeatedToken(c.EgressProxy.ProxyExcludes)
    /\ pre.EgressProxy.ProxyExcludes = "localhost-prod"
         => ~IsToken("localhost", c.EgressProxy.ProxyExcludes)

\* assignProxy has run over ProxyExcludes "localhost" and the name
\* "localhost-prod"
C5_Witness ==
  /\ ProxyAssigned /\ pass = 1
  /\ ~pre.EgressProxy.nil
  /\ pre.EgressProxy.ProxyExcludes = "localhost"
  /\ pre.Name = "localhost-prod"
  /\ pre.MasterPublicName = ""
  /\ c.EgressProxy.ProxyExcludes # "localhost"

(* ------------------------------- C6 ------------------------------------ *)

\* C6: when the original ProxyExcludes has no repeated token, the
\* ProxyExcludes stored by assignProxy has no repeated token.
C6_NoDuplicateTokens ==
  (/\ ProxyAssigned
   /\ ~pre.EgressProxy.nil
   /\ NoRepeatedToken(pre.EgressProxy.ProxyExcludes))
    => NoRepeatedToken(c.EgressProxy.ProxyExcludes)

(* ------------------------------- C7 ------------------------------------ *)

\* C7: shared-network resolution.  For a shared network with NetworkCIDR
\* empty, once the cloud is built, the pass fails with a lookup error when
\* FindVPCInfo fails or finds no VPC, fails with the CIDR-missing error when
\* the VPC has no CIDR, and otherwise NetworkCIDR is the VPC's CIDR; the
\* default range is never what fills a shared cluster's NetworkCIDR; and
\* FindVPCInfo is not invoked when NetworkCIDR is set or the network is not
\* shared.
C7_SharedNetwork ==
  (pc = "Done" /\ ret # "BuildCloudError") =>
    IF pre.NetworkID # "" /\ pre.NetworkCIDR = ""
    THEN /\ Count("FindVPCInfo") = 1
         /\ env.vpc.kind = "err" => ret = "NetworkLookupError"
         /\ env.vpc.kind = "nil" => ret = "VPCNotFoundError"
         /\ env.vpc.kind = "info" =>
              /\ c.NetworkCIDR = env.vpc.CIDR
              /\ (env.vpc.CIDR = "") <=> (ret = "NetworkCIDRMissingError")
         /\ ret \in {"NetworkLookupError", "VPCNotFoundError"}
              <=> env.vpc.kind \in {"err", "nil"}
         /\ ret \in {"NetworkLookupError", "VPCNotFoundError"}
              => c.NetworkCIDR = ""
    ELSE /\ Count("FindVPCInfo") = 0
         /\ ret \notin {"NetworkLookupError", "VPCNotFoundError",
                        "NetworkCIDRMissingError"}

\* the scenario NetworkID "vpc-1", VPCInfo{CIDR: ""}
C7_Witness ==
  /\ pc = "Done" /\ pass = 1
  /\ pre.NetworkID = "vpc-1" /\ pre.NetworkCIDR = ""
  /\ env.vpc = [kind |-> "info", CIDR |-> ""]
  /\ ret = "NetworkCIDRMissingError"
  /\ c.NetworkCIDR = ""

(* ------------------------------- C8 ------------------------------------ *)

\* C8: fail-fast without rollback.  A pass returns nil only if every
\* collaborator it invoked succeeded; a pass that returns an error returned
\* it right after the failing call, so that call is the last one made, the
\* fields of the later steps are as they were when the pass began, and the
\* fields of the earlier steps keep their new values.
C8_FailFast ==
  pc = "Done" =>
    /\ ret = "nil" =>
         /\ env.cloud.kind = "ok" /\ env.subnets.kind = "ok"
         /\ Count("BuildCloud") = 1 /\ Count("assignCIDRsToSubnets") = 1
         /\ Count("FindVPCInfo") > 0 => (env.vpc.kind = "info" /\ env.vpc.CIDR # "")
         /\ Count("LoadChannel") > 0 => env.channel.kind # "err"
         /\ Count("FindLatestKubernetesVersion") > 0 => env.read.kind # "err"
    /\ ret # "nil" =>
         /\ LastCall = FailingCall(ret)
         /\ Count(FailingCall(ret)) = 1
    /\ ret \in {"BuildCloudError", "NetworkLookupError", "VPCNotFoundError",
                "NetworkCIDRMissingError"} => c = pre
    /\ ret = "SubnetError" =>
         /\ ~c.Topology.nil
         /\ c.NetworkCIDR # ""
         /\ c.NonMasqueradeCIDR # ""
         /\ pre.Name # "" => c.MasterPublicName # ""
         /\ c.EgressProxy = pre.EgressProxy
         /\ c.KubernetesVersion = pre.KubernetesVersion
         /\ Count("LoadChannel") = 0
         /\ Count("FindLatestKubernetesVersion") = 0
    /\ ret \in {"ChannelLoadError", "LatestVersionFetchError"} =>
         /\ c.KubernetesVersion = ""
         /\ ~c.Topology.nil /\ c.NetworkCIDR # "" /\ c.NonMasqueradeCIDR # ""
         /\ ~pre.EgressProxy.nil =>
              Contains(c.EgressProxy.ProxyExcludes, "127.0.0.1")
    /\ ret = "ChannelLoadError" => Count("FindLatestKubernetesVersion") = 0

\* a first pass over a bare cluster with a proxy failed in the subnet
\* allocator
C8_Witness ==
  /\ pc = "Done" /\ pass = 1
  /\ ret = "SubnetError"
  /\ pre.Topology.nil /\ pre.NetworkCIDR = "" /\ pre.NonMasqueradeCIDR = ""
  /\ pre.MasterPublicName = "" /\ pre.Name # ""
  /\ ~pre.EgressProxy.nil /\ pre.KubernetesVersion = ""
  /\ c # pre

(* ------------------------------- C9 ------------------------------------ *)

\* C9: the defaults after a pass that returned nil.  A nil Topology became
\* Public/Public; an empty NetworkCIDR of a network that is not shared became
\* "172.20.0.0/16"; an empty NonMasqueradeCIDR became "100.64.0.0/10"; an
\* empty MasterPublicName became "api." + Name when Name is not empty and
\* stayed empty otherwise.  So Topology is not nil and the two CIDRs are not
\* empty.
C9_Defaults ==
  Succeeded =>
    /\ pre.Topology.nil =>
         c.Topology = [nil |-> FALSE, Masters |-> "public", Nodes |-> "public"]
    /\ (pre.NetworkCIDR = "" /\ pre.NetworkID = "") =>
         c.NetworkCIDR = "172.20.0.0/16"
    /\ pre.NonMasqueradeCIDR = "" => c.NonMasqueradeCIDR = "100.64.0.0/10"
    /\ (pre.MasterPublicName = "" /\ pre.Name # "") =>
         c.MasterPublicName = "api." \o pre.Name
    /\ (pre.MasterPublicName = "" /\ pre.Name = "") => c.MasterPublicName = ""
    /\ ~c.Topology.nil
    /\ c.NetworkCIDR # ""
    /\ c.NonMasqueradeCIDR # ""

\* a first pass over a cluster with only a name has returned nil
C9_Witness ==
  /\ Succeeded /\ pass = 1
  /\ pre.Topology.nil /\ pre.NetworkCIDR = "" /\ pre.NetworkID = ""
  /\ pre.NonMasqueradeCIDR = "" /\ pre.MasterPublicName = ""
  /\ pre.Name = "localhost-prod"
  /\ c.MasterPublicName = "api.localhost-prod"

(* ------------------------------- C10 ----------------------------------- *)

RECURSIVE ReferenceExcludes(_, _, _)
\* the original string followed by ",candidate" for every candidate that is
\* not empty and not a substring of the original
ReferenceExcludes(soFar, original, candidates) ==
  IF Len(candidates) = 0 THEN soFar
  ELSE LET e == Head(candidates)
           next == IF e = "" \/ Contains(original, e) THEN soFar
                   ELSE IF soFar = "" THEN e
                   ELSE soFar \o "," \o e
       IN ReferenceExcludes(next, original, Tail(candidates))

\* MasterPublicName as the defaulting steps of the pass leave it
ExpectedMasterPublicName ==
  IF pre.MasterPublicName # "" THEN pre.MasterPublicName
  ELSE IF pre.Name # "" THEN "api." \o pre.Name
  ELSE ""

\* NonMasqueradeCIDR as the defaulting steps of the pass leave it
ExpectedNonMasqueradeCIDR ==
  IF pre.NonMasqueradeCIDR # "" THEN pre.NonMasqueradeCIDR ELSE "100.64.0.0/10"

\* C10: the reference result of assignProxy inside a pass.  A nil EgressProxy
\* stays nil.  Otherwise ProxyExcludes is the original string, unchanged as a
\* prefix, followed in the order 127.0.0.1, localhost, 169.254.169.254,
\* ClusterDNSDomain, MasterPublicName, Name, 100.64.0.1, NonMasqueradeCIDR by
\* the candidates that are not empty and not a substring of the original,
\* MasterPublicName and NonMasqueradeCIDR being the defaulted values; a
\* cluster with only the name N and a proxy gets
\* "127.0.0.1,localhost,169.254.169.254,api.N,N,100.64.0.1,100.64.0.0/10".
C10_ReferenceExcludes ==
  ProxyAssigned =>
    IF pre.EgressProxy.nil THEN c.EgressProxy = Nil
    ELSE LET original == pre.EgressProxy.ProxyExcludes
             result == c.EgressProxy.ProxyExcludes
         IN /\ ~c.EgressProxy.nil
            /\ result = ReferenceExcludes(original, original,
                 << "127.0.0.1", "localhost", "169.254.169.254",
                    pre.ClusterDNSDomain, ExpectedMasterPublicName, pre.Name,
                    "100.64.0.1", ExpectedNonMasqueradeCIDR >>)
            /\ SubSeq(result, 1, Len(original)) = original
            /\ (/\ original = "" /\ pre.Name = "localhost-prod"
                /\ pre.ClusterDNSDomain = "" /\ pre.MasterPublicName = ""
                /\ pre.NonMasqueradeCIDR = "")
                 => result = "127.0.0.1,localhost,169.254.169.254,"
                      \o "api.localhost-prod,localhost-prod,"
                      \o "100.64.0.1,100.64.0.0/10"

\* assignProxy has run over a list of an empty token and a token that holds
\* the candidate "localhost" as a substring
C10_Witness ==
  /\ ProxyAssigned /\ pass = 1
  /\ ~pre.EgressProxy.nil
  /\ pre.EgressProxy.ProxyExcludes = ",localhost-prod"
  /\ pre.Name = "localhost-prod"
  /\ pre.ClusterDNSDomain = "cluster.local"
  /\ c.EgressProxy.ProxyExcludes =
       ",localhost-prod,127.0.0.1,169.254.169.254,"
         \o "cluster.local,api.localhost-prod,100.64.0.1,100.64.0.0/10"

====
